---- MODULE Spec2Model ----
(***************************************************************************)
(* A model of org/parser.py: the inline markup tokenizer (parse_markup),   *)
(* the heading field extraction and the line-by-line document parser       *)
(* (parse) with its heading stack and open drawer.                         *)
(*                                                                         *)
(* Python strings are sequences of one-character strings.  Python indices  *)
(* are kept 0-based, as in the source; Char/Slice/Find translate them.     *)
(* A value that may be None, a str or a tuple is a tagged record.          *)
(***************************************************************************)
EXTENDS Integers, Sequences, FiniteSets, TLC

VARIABLES
    \* parse_markup: the line, the scan position, the plain-text buffer, the
    \* result list, the position in the function and the number of times
    \* the loop body has run
    string, index, text_node, markup, mpc, scans,
    \* parse: the headings created so far (a heading is named by its place
    \* in this list), the stack of open headings, the top-level sequence,
    \* the open drawer, the lines consumed so far and the position in the
    \* function
    headers, header_stack, document, open_drawer, lines, pc,
    \* the heading branch of parse on one heading line: the line, the
    \* Header being filled in and the position in the branch
    heading_line, heading, hpc

mvars == <<string, index, text_node, markup, mpc, scans>>
tvars == <<headers, header_stack, document, open_drawer, lines, pc>>
hvars == <<heading_line, heading, hpc>>
vars == <<string, index, text_node, markup, mpc, scans,
          headers, header_stack, document, open_drawer, lines, pc,
          heading_line, heading, hpc>>

(* ---------------------------- bounds ----------------------------------- *)
\* longest enumerated line body, in characters
MaxLen == 7
\* length of the plain-text prefix put in front of a body
MaxPad == 7
\* entries the markup list can hold before the allocation fails; a run
\* that visits each index at most once appends at most Len(string) + 1
MaxMarkup == MaxPad + MaxLen + 2
\* lines of a document
MaxLines == 5
\* deepest heading level of a document
MaxLevel == 3

(* ------------------------- Python values ------------------------------- *)
None == [type |-> "NoneType"]
Str(s) == [type |-> "str", chars |-> s]
Tuple(t) == [type |-> "tuple", items |-> t]

Min(a, b) == IF a < b THEN a ELSE b

\* string[i]
Char(s, i) == s[i + 1]
\* string[a:b] taken up to and including position b
SliceThrough(s, a, b) == SubSeq(s, a + 1, Min(b + 1, Len(s)))
\* string[a:b] for 0 <= a, 0 <= b
Slice(s, a, b) == SubSeq(s, a + 1, Min(b, Len(s)))
\* string[a:]
SliceFrom(s, a) == SubSeq(s, a + 1, Len(s))
\* string.find(ch): the start argument dropped
FindFromZero(s, ch, start) ==
    LET hits == {i \in 0..(Len(s) - 1) : Char(s, i) = ch}
    IN IF hits = {} THEN -1 ELSE CHOOSE i \in hits : \A j \in hits : i <= j

\* string.find(ch, start): the first position >= start holding ch, else -1
Find(s, ch, start) ==
    LET hits == {i \in start..(Len(s) - 1) : Char(s, i) = ch}
    IN IF hits = {} THEN -1 ELSE CHOOSE i \in hits : \A j \in hits : i <= j

\* \s of the regular expressions
IsSpace(c) == c = " "

(* --------------------------- entities ---------------------------------- *)
Element(style, text) == [type |-> "Element", style |-> style, text |-> text]
Link(url, text) == [type |-> "Link", url |-> url, text |-> text]

markup_char(char) ==
    CASE char = "_" -> "UNDERLINE"
      [] char = "/" -> "ITALICS"
      [] char = "*" -> "BOLD"
      [] char = "+" -> "STRIKE"
      [] char = "~" -> "CODE"
      [] char = "=" -> "VERBATIM"
      [] OTHER -> "NONE"

char_for_style(style) ==
    CASE style = "UNDERLINE" -> <<"_">>
      [] style = "ITALICS" -> <<"/">>
      [] style = "BOLD" -> <<"*">>
      [] style = "STRIKE" -> <<"+">>
      [] style = "CODE" -> <<"~">>
      [] style = "VERBATIM" -> <<"=">>
      [] style = "NONE" -> <<>>

(* ------------------------ the link pattern ----------------------------- *)
(* link_re = \[\s*?\[(.+)?\]\s*?\[(.+)?\]\s*?\]   matched with re.match.   *)
(* Positions below are 1-based in s.  \s*? can only stop at the first      *)
(* non-space character, so the bracket after it is determined; each (.+)?  *)
(* is greedy, so the backtracking search returns the match with the        *)
(* rightmost closing bracket of group 1 and then of group 2.  A group that *)
(* matched nothing did not participate and is None.                        *)
RECURSIVE SkipSpace(_, _)
SkipSpace(s, i) ==
    IF i <= Len(s) /\ IsSpace(s[i]) THEN SkipSpace(s, i + 1) ELSE i

At(s, i, ch) == i >= 1 /\ i <= Len(s) /\ s[i] = ch

\* the end of the pattern, given where group 2 closes: "]" at d, spaces,
\* "]" at the result (0 when it does not match)
LinkTail(s, d) ==
    IF At(s, d, "]") /\ At(s, SkipSpace(s, d + 1), "]")
    THEN SkipSpace(s, d + 1) ELSE 0

\* the rightmost d in lo..d that lets the tail match, else 0
RECURSIVE LastClose2(_, _, _)
LastClose2(s, lo, d) ==
    IF d < lo THEN 0
    ELSE IF LinkTail(s, d) # 0 THEN d ELSE LastClose2(s, lo, d - 1)

\* given where group 1 closes ("]" at b): spaces, "[", then group 2 up to
\* the rightmost closing bracket; the position of that bracket, else 0
LinkSecond(s, b) ==
    IF At(s, b, "]") /\ At(s, SkipSpace(s, b + 1), "[")
    THEN LastClose2(s, SkipSpace(s, b + 1) + 1, Len(s)) ELSE 0

\* the rightmost b in lo..b that lets the rest of the pattern match, else 0
RECURSIVE LastClose1(_, _, _)
LastClose1(s, lo, b) ==
    IF b < lo THEN 0
    ELSE IF LinkSecond(s, b) # 0 THEN b ELSE LastClose1(s, lo, b - 1)

\* where group 1 closes in the match of the whole pattern, else 0
LinkFirst(s) ==
    IF At(s, 1, "[") /\ At(s, SkipSpace(s, 2), "[")
    THEN LastClose1(s, SkipSpace(s, 2) + 1, Len(s)) ELSE 0

\* the text of a group between the brackets at lo and hi
Group(s, lo, hi) == IF hi = lo + 1 THEN None ELSE Str(SubSeq(s, lo + 1, hi - 1))

\* re.match(link_re, s): found, span end, group(1), group(2)
LinkMatch(s) ==
    IF LinkFirst(s) = 0 THEN [found |-> FALSE]
    ELSE [found |-> TRUE,
          end |-> LinkTail(s, LinkSecond(s, LinkFirst(s))),
          g1 |-> Group(s, SkipSpace(s, 2), LinkFirst(s)),
          g2 |-> Group(s, SkipSpace(s, LinkFirst(s) + 1),
                       LinkSecond(s, LinkFirst(s)))]

(* ------------------------- parse_markup -------------------------------- *)
\* lines 137-139: the locals at entry
MarkupCall(s) ==
    /\ string' = s
    /\ index' = 0
    /\ text_node' = None
    /\ markup' = <<>>
    /\ mpc' = "scan"
    /\ scans' = 0

\* list.append on the markup list: the allocation fails once the list
\* would hold more than MaxMarkup entries
Fits(list) == Len(list) <= MaxMarkup

\* lines 141-166: one iteration of the while loop
MarkupScan ==
    /\ mpc = "scan"
    /\ index < Len(string)
    /\ LET char == Char(string, index)
           style == markup_char(char)
           found_matching == Find(string, char, index + 1)
           link_match == IF char = "[" THEN LinkMatch(SliceFrom(string, index))
                         ELSE [found |-> FALSE]
       IN IF link_match.found
          THEN LET appended == Append(markup, Link(link_match.g1, link_match.g2))
               IN IF Fits(appended)
                  THEN /\ markup' = appended
                       /\ index' = link_match.end + 1
                       /\ UNCHANGED <<text_node, mpc>>
                  ELSE /\ mpc' = "MemoryError"
                       /\ UNCHANGED <<index, text_node, markup>>
          ELSE IF style # "NONE" /\ found_matching # -1
          THEN LET flushed == IF text_node # None
                              THEN Append(markup, Element("NONE", text_node.chars))
                              ELSE markup
                   node_contents == Slice(string, index + 1, found_matching)
                   appended == Append(flushed, Element(style, node_contents))
               IN IF Fits(appended)
                  THEN /\ markup' = appended
                       /\ text_node' = None
                       /\ index' = found_matching + 1
                       /\ UNCHANGED mpc
                  ELSE /\ mpc' = "MemoryError"
                       /\ UNCHANGED <<index, text_node, markup>>
          ELSE /\ text_node' = IF text_node # None
                               THEN Str(Append(text_node.chars, char))
                               ELSE Str(<<char>>)
               /\ index' = index + 1
               /\ UNCHANGED <<markup, mpc>>
    /\ scans' = scans + 1
    /\ UNCHANGED string
    /\ UNCHANGED <<tvars, hvars>>

\* lines 167-169: the loop has ended; flush the buffer and return
MarkupReturn ==
    /\ mpc = "scan"
    /\ index >= Len(string)
    /\ markup' = IF text_node # None
                 THEN Append(markup, Element("NONE", text_node.chars))
                 ELSE markup
    /\ mpc' = "done"
    /\ UNCHANGED <<string, index, text_node, scans>>
    /\ UNCHANGED <<tvars, hvars>>

\* no document is being parsed
ParseIdle ==
    /\ headers = <<>>
    /\ header_stack = <<>>
    /\ document = <<>>
    /\ open_drawer = None
    /\ lines = <<>>
    /\ pc = "idle"

\* no heading line is being taken apart
HeadingIdle ==
    /\ heading_line = <<>>
    /\ heading = None
    /\ hpc = "idle"

(* ---------------------- tokenizer inputs ------------------------------- *)
Alphabet == {"a", "*", "[", "]"}

RECURSIVE Strings(_)
Strings(n) ==
    IF n = 0 THEN {<<>>}
    ELSE LET shorter == Strings(n - 1)
         IN shorter \cup {Append(s, c) : s \in {t \in shorter : Len(t) = n - 1},
                                         c \in Alphabet}

Pad(n) == [i \in 1..n |-> "a"]

MarkupInputs == {Pad(n) \o body : n \in {0, MaxPad}, body \in Strings(MaxLen)}

MarkupInit ==
    /\ string \in MarkupInputs
    /\ index = 0
    /\ text_node = None
    /\ markup = <<>>
    /\ mpc = "scan"
    /\ scans = 0
    /\ ParseIdle
    /\ HeadingIdle

MarkupNext == MarkupScan \/ MarkupReturn

MarkupSpec == MarkupInit /\ [][MarkupNext]_vars

(* ------------------- tokenizer inputs without links -------------------- *)
\* two style delimiters and a plain character; no brackets, so no link
StyleAlphabet == {"a", "*", "/"}

RECURSIVE StringsOver(_, _)
StringsOver(alphabet, n) ==
    IF n = 0 THEN {<<>>}
    ELSE LET shorter == StringsOver(alphabet, n - 1)
         IN shorter \cup {Append(s, c) : s \in {t \in shorter : Len(t) = n - 1},
                                         c \in alphabet}

StyleInit ==
    /\ string \in StringsOver(StyleAlphabet, MaxLen)
    /\ index = 0
    /\ text_node = None
    /\ markup = <<>>
    /\ mpc = "scan"
    /\ scans = 0
    /\ ParseIdle
    /\ HeadingIdle

StyleSpec == StyleInit /\ [][MarkupNext]_vars

(* ------------------------------ parse ---------------------------------- *)
(* A line of a document is given by the pattern it matches and the fields  *)
(* the pattern captures:                                                   *)
(*   header     "*" x level, a space, an empty title      (header_re)      *)
(*   drawer     ":NAME:"                                  (drawer_re)      *)
(*   property   ":KEY:" and value, the rest of the line, which holds a     *)
(*              character that is not whitespace          (drawer_child_re)*)
(*   scheduled  "SCHEDULED:" and a timestamp or other text                 *)
(*   deadline   "DEADLINE:" and a timestamp or other text                  *)
(*   directive  "#+NAME"                                  (directive_re)   *)
(*   text       any other line                                             *)
(* No line matches two of the patterns, so the order of the tests only     *)
(* matters through open_drawer and the heading stack.                      *)
HeaderLine(level) == [kind |-> "header", level |-> level]
DrawerLine(name) == [kind |-> "drawer", name |-> name]
EndLine == DrawerLine("END")
PropertyLine(key, value) == [kind |-> "property", key |-> key, value |-> value]
ScheduledLine(stamp) == [kind |-> "scheduled", stamp |-> stamp]
DeadlineLine(stamp) == [kind |-> "deadline", stamp |-> stamp]
DirectiveLine(name) == [kind |-> "directive", name |-> name]
TextLine == [kind |-> "text"]

\* the text after the prefix: a timestamp <YYYY-MM-DD ...> with its three
\* numbers, or text the date pattern does not match
Stamp(year, month, day) ==
    [matches |-> TRUE, year |-> year, month |-> month, day |-> day]
NoStamp == [matches |-> FALSE]

\* the nodes
Header(level, text, tags) ==
    [level |-> level, text |-> text, tags |-> tags, todo |-> None,
     priority |-> None, scheduled |-> None, deadline |-> None,
     children |-> <<>>]
\* a Drawer object; id tells apart two drawers of the same name and is the
\* number of the line that created it
Drawer(name, id) == [type |-> "Drawer", name |-> name, id |-> id, children |-> <<>>]
Directive(name, args) == [type |-> "Directive", name |-> name, args |-> args]
Markup(elements) == [type |-> "Markup", elements |-> elements]
\* the Markup parse_markup returns for a line
MarkupOf(line) == [type |-> "Markup", line |-> line]
\* a reference to the heading headers[h]
HeaderRef(h) == [type |-> "Header", id |-> h]

\* datetime.date(year, month, day) accepts the arguments
IsLeap(year) == (year % 4 = 0 /\ year % 100 # 0) \/ year % 400 = 0
DaysInMonth(year, month) ==
    IF month = 2 THEN (IF IsLeap(year) THEN 29 ELSE 28)
    ELSE IF month \in {4, 6, 9, 11} THEN 30 ELSE 31
ValidDate(year, month, day) ==
    /\ year >= 1 /\ year <= 9999
    /\ month >= 1 /\ month <= 12
    /\ day >= 1 /\ day <= DaysInMonth(year, month)

\* raised by datetime.date
ValueError == [type |-> "ValueError"]

\* lines 121-132
parse_date(stamp) ==
    IF stamp.matches
    THEN IF ValidDate(stamp.year, stamp.month, stamp.day)
         THEN [type |-> "date", year |-> stamp.year, month |-> stamp.month,
               day |-> stamp.day]
         ELSE ValueError
    ELSE None

\* the bottom of the stack in place of its top
peekBottom(stack) == IF Len(stack) = 0 THEN 0 ELSE stack[1]

\* lines 172-177; 0 stands for None
peek(stack) == IF Len(stack) = 0 THEN 0 ELSE stack[Len(stack)]

\* stack.pop(): the list without its last entry
Front(stack) == SubSeq(stack, 1, Len(stack) - 1)

\* line 267 with < for <=: a heading of the same level does not close
SupersedesStrictly(level, top_level) == level < top_level

\* line 267: the new heading closes the heading at the top of the stack
Supersedes(level, top_level) == level <= top_level

\* line 271 alone: the top is popped and the loop is not run
PopTopOnly(level, top_header, stack) == <<top_header, stack>>

\* the loop of lines 274-275 keeping the first popped heading in top_header
RECURSIVE PopKeepTop(_, _, _)
PopKeepTop(level, top_header, stack) ==
    IF level <= headers[top_header].level /\ stack # <<>>
    THEN <<top_header, PopKeepTop(level, peek(stack), Front(stack))[2]>>
    ELSE <<top_header, stack>>

\* lines 274-275: pop while the last popped heading is at the level of the
\* new one or deeper and the stack is not empty; the last popped heading
\* and the stack that is left
RECURSIVE PopClosed(_, _, _)
PopClosed(level, top_header, stack) ==
    IF level <= headers[top_header].level /\ stack # <<>>
    THEN PopClosed(level, peek(stack), Front(stack))
    ELSE <<top_header, stack>>

\* the node goes to the heading at the top of the stack, else to the
\* document, an open drawer or not
AttachOutsideDrawer(node) ==
    IF peek(header_stack) # 0
    THEN /\ headers' = [headers EXCEPT ![peek(header_stack)].children = Append(@, node)]
         /\ UNCHANGED <<open_drawer, document>>
    ELSE /\ document' = Append(document, node)
         /\ UNCHANGED <<open_drawer, headers>>

\* lines 301-306 and 311-316: the node goes to the open drawer, else to the
\* heading at the top of the stack, else to the document
Attach(node) ==
    IF open_drawer # None
    THEN /\ open_drawer' = [open_drawer EXCEPT !.children = Append(@, node)]
         /\ UNCHANGED <<headers, document>>
    ELSE IF peek(header_stack) # 0
    THEN /\ headers' = [headers EXCEPT ![peek(header_stack)].children = Append(@, node)]
         /\ UNCHANGED <<open_drawer, document>>
    ELSE /\ document' = Append(document, node)
         /\ UNCHANGED <<open_drawer, headers>>

\* lines 230-286 for a heading line with an empty title
HeaderBranch(line) ==
    LET current_header == peek(header_stack)
        header == Header(line.level, Markup(<<>>), <<>>)
        new == Len(headers) + 1
    IN IF current_header = 0
       THEN /\ headers' = Append(headers, header)
            /\ header_stack' = Append(header_stack, new)
            /\ UNCHANGED document
       ELSE IF Supersedes(header.level, headers[current_header].level)
       THEN LET popped == PopClosed(header.level, peek(header_stack),
                                    Front(header_stack))
            IN /\ document' = Append(document, HeaderRef(popped[1]))
               /\ header_stack' = Append(popped[2], new)
               /\ headers' = Append(headers, header)
       ELSE /\ headers' = Append([headers EXCEPT ![current_header].children =
                                     Append(@, HeaderRef(new))], header)
            /\ header_stack' = Append(header_stack, new)
            /\ UNCHANGED document

\* str.rstrip(), str.lstrip(), str.strip()
RECURSIVE RStrip(_)
RStrip(s) ==
    IF s # <<>> /\ IsSpace(s[Len(s)]) THEN RStrip(SubSeq(s, 1, Len(s) - 1)) ELSE s
RECURSIVE LStrip(_)
LStrip(s) == IF s # <<>> /\ IsSpace(s[1]) THEN LStrip(Tail(s)) ELSE s
Strip(s) == LStrip(RStrip(s))

\* the entry as the line gives it, surrounding whitespace kept
DrawerChildRaw(line) == Tuple(<<line.key, line.value>>)

\* lines 224-226: (key, value.strip()) of a line matching drawer_child_re
DrawerChild(line) == Tuple(<<line.key, Strip(line.value)>>)

\* lines 200-316: the body of the loop for one line
ParseLine(line) ==
    /\ pc = "loop"
    /\ Len(lines) < MaxLines
    /\ lines' = Append(lines, line)
    /\ LET current_header == peek(header_stack)
       IN IF line.kind = "drawer"
          THEN IF line = EndLine
               THEN /\ IF current_header # 0
                       THEN /\ headers' = [headers EXCEPT ![current_header].children =
                                              Append(@, open_drawer)]
                            /\ UNCHANGED document
                       ELSE /\ document' = Append(document, open_drawer)
                            /\ UNCHANGED headers
                    /\ open_drawer' = None
                    /\ UNCHANGED <<header_stack, pc>>
               ELSE /\ open_drawer' = Drawer(line.name, Len(lines) + 1)
                    /\ UNCHANGED <<headers, header_stack, document, pc>>
          ELSE IF open_drawer # None /\ line.kind = "property"
          THEN /\ open_drawer' = [open_drawer EXCEPT !.children =
                                     Append(@, DrawerChild(line))]
               /\ UNCHANGED <<headers, header_stack, document, pc>>
          ELSE IF line.kind = "header"
          THEN /\ HeaderBranch(line)
               /\ UNCHANGED <<open_drawer, pc>>
          ELSE IF current_header # 0 /\ line.kind = "scheduled"
          THEN IF parse_date(line.stamp) = ValueError
               THEN /\ pc' = "ValueError"
                    /\ UNCHANGED <<headers, header_stack, document, open_drawer>>
               ELSE /\ headers' = [headers EXCEPT ![current_header].scheduled =
                                      parse_date(line.stamp)]
                    /\ UNCHANGED <<header_stack, document, open_drawer, pc>>
          ELSE IF current_header # 0 /\ line.kind = "deadline"
          THEN IF parse_date(line.stamp) = ValueError
               THEN /\ pc' = "ValueError"
                    /\ UNCHANGED <<headers, header_stack, document, open_drawer>>
               ELSE /\ headers' = [headers EXCEPT ![current_header].deadline =
                                      parse_date(line.stamp)]
                    /\ UNCHANGED <<header_stack, document, open_drawer, pc>>
          ELSE IF line.kind = "directive"
          THEN /\ Attach(Directive(line.name, None))
               /\ UNCHANGED <<header_stack, pc>>
          ELSE /\ Attach(MarkupOf(line))
               /\ UNCHANGED <<header_stack, pc>>
    /\ UNCHANGED <<mvars, hvars>>

\* the headings of the stack that are no heading's child
UnlinkedHeaders(stack) ==
    SelectSeq([i \in 1..Len(stack) |-> HeaderRef(stack[i])],
              LAMBDA r : \A g \in 1..Len(headers) :
                 \A i \in 1..Len(headers[g].children) : headers[g].children[i] # r)

\* line 318: the headings of the stack, from its bottom to its top
StackHeaders(stack) == [i \in 1..Len(stack) |-> HeaderRef(stack[i])]

\* lines 317-319: the input has ended; split yields at least one line
ParseReturn ==
    /\ pc = "loop"
    /\ lines # <<>>
    /\ document' = document \o StackHeaders(header_stack)
    /\ pc' = "returned"
    /\ UNCHANGED <<headers, header_stack, open_drawer, lines>>
    /\ UNCHANGED <<mvars, hvars>>

\* parse_markup is not running
MarkupIdle ==
    /\ string = <<>>
    /\ index = 0
    /\ text_node = None
    /\ markup = <<>>
    /\ mpc = "idle"
    /\ scans = 0

\* lines 197-199
ParseInit ==
    /\ headers = <<>>
    /\ header_stack = <<>>
    /\ document = <<>>
    /\ open_drawer = None
    /\ lines = <<>>
    /\ pc = "loop"
    /\ MarkupIdle
    /\ HeadingIdle

(* ----------------------- documents: structure -------------------------- *)
TreeLines ==
    {HeaderLine(l) : l \in 1..MaxLevel}
        \cup {DrawerLine("P"), EndLine,
              PropertyLine("K", <<" ", "v">>), PropertyLine("J", <<" ", "w", " ">>),
              DirectiveLine("TITLE"), TextLine}

TreeNext == (\E line \in TreeLines : ParseLine(line)) \/ ParseReturn

TreeSpec == ParseInit /\ [][TreeNext]_vars

(* ------------------------- documents: dates ---------------------------- *)
\* <2024-01-15 Mon>, <2024-13-01 Mon>, <2023-02-30 Thu> and no timestamp
Stamps == {Stamp(2024, 1, 15), Stamp(2024, 13, 1), Stamp(2023, 2, 30), NoStamp}

DateLines ==
    {HeaderLine(l) : l \in 1..MaxLevel}
        \cup {ScheduledLine(st) : st \in Stamps}
        \cup {DeadlineLine(st) : st \in Stamps}
        \cup {TextLine}

DateNext == (\E line \in DateLines : ParseLine(line)) \/ ParseReturn

DateSpec == ParseInit /\ [][DateNext]_vars

(* ----------------- the heading branch, character level ---------------- *)
\* the number of "*" at the start of l, counted from position i (1-based)
RECURSIVE CountStars(_, _)
CountStars(l, i) ==
    IF i <= Len(l) /\ l[i] = "*" THEN 1 + CountStars(l, i + 1) ELSE 0

\* header_re = ^(\*+)\s(.*?)\s*$ : the stars, one whitespace character,
\* then the rest of the line without its trailing whitespace
HeaderMatch(l) ==
    IF CountStars(l, 1) >= 1 /\ CountStars(l, 1) < Len(l)
           /\ IsSpace(l[CountStars(l, 1) + 1])
    THEN [found |-> TRUE, stars |-> CountStars(l, 1),
          text |-> RStrip(SubSeq(l, CountStars(l, 1) + 2, Len(l)))]
    ELSE [found |-> FALSE]

\* tag_re = :([^ ]+?:)+?$ with re.search: the leftmost ":" from which the
\* text runs to its end without a space, ends in ":" and holds at least one
\* more character; -1 when there is none.  [^ ] also matches ":".
TagStart(text) ==
    LET starts == {i \in 0..(Len(text) - 3) :
                      /\ Char(text, i) = ":"
                      /\ text[Len(text)] = ":"
                      /\ \A j \in (i + 1)..(Len(text) - 1) : Char(text, j) # " "}
    IN IF starts = {} THEN -1
       ELSE CHOOSE i \in starts : \A j \in starts : i <= j

\* str.split(sep)
RECURSIVE Split(_, _)
Split(s, sep) ==
    IF Find(s, sep, 0) = -1 THEN <<s>>
    ELSE <<Slice(s, 0, Find(s, sep, 0))>>
             \o Split(SliceFrom(s, Find(s, sep, 0) + 1), sep)

\* list[1:-1]
Inner(list) == SubSeq(list, 2, Len(list) - 1)

\* lines 180-185
first_word(text) ==
    LET space == Find(text, " ", 0)
    IN IF space = -1 THEN text ELSE Slice(text, 0, space)

Upper == {"A", "B", "C", "D", "E", "F", "G", "H", "I", "J", "K", "L", "M",
          "N", "O", "P", "Q", "R", "S", "T", "U", "V", "W", "X", "Y", "Z"}

\* priority_re = " \[#([A-Z])\]" with re.match: the pattern starts with a
\* space; the span of a match ends at 5
PriorityMatch(text) ==
    /\ Len(text) >= 5
    /\ text[1] = " " /\ text[2] = "[" /\ text[3] = "#"
    /\ text[4] \in Upper /\ text[5] = "]"

\* line 188: the default set of keywords
recognized_todo_keywords == {<<"T", "O", "D", "O">>, <<"D", "O", "N", "E">>}

\* lines 230-258 and the call of line 260: level, tags, keyword and
\* priority are taken from the line and parse_markup is entered on what is
\* left of the text
HeaderFields ==
    /\ hpc = "fields"
    /\ HeaderMatch(heading_line).found
    /\ LET level == HeaderMatch(heading_line).stars
           text0 == HeaderMatch(heading_line).text
           tags == TagStart(text0)
           tags_list == IF tags # -1
                        THEN Inner(Split(SliceFrom(text0, tags), ":"))
                        ELSE <<>>
           text1 == IF tags # -1 THEN Strip(Slice(text0, 0, tags)) ELSE text0
           todo_keyword == first_word(text1)
           known == todo_keyword \in recognized_todo_keywords
           text2 == IF known THEN SliceFrom(text1, Len(todo_keyword) + 1)
                    ELSE text1
           priority_match == known /\ PriorityMatch(text2)
           text3 == IF priority_match THEN SliceFrom(text2, 5 + 1) ELSE text2
       IN /\ heading' = [Header(level, Str(<<>>), tags_list) EXCEPT
                            !.todo = IF known THEN Str(todo_keyword) ELSE None,
                            !.priority = IF priority_match
                                         THEN Tuple(<<Str(<<text2[4]>>)>>)
                                         ELSE None]
          /\ MarkupCall(text3)
    /\ hpc' = "title"
    /\ UNCHANGED heading_line
    /\ UNCHANGED tvars

\* line 260: parse_markup has returned; its result becomes the title
HeaderText ==
    /\ hpc = "title"
    /\ mpc = "done"
    /\ heading' = [heading EXCEPT !.text = Markup(markup)]
    /\ hpc' = "done"
    /\ UNCHANGED heading_line
    /\ UNCHANGED <<mvars, tvars>>

(* -------------------------- heading lines ------------------------------ *)
Stars(n) == [i \in 1..n |-> "*"]

\* the parts a heading line is put together from: a keyword with the
\* space(s) after it, a priority marker, a title and a run of tags
Keywords == {<<"T", "O", "D", "O">>, <<"D", "O", "N", "E">>, <<"N", "O", "W">>}
Gaps == {<<" ">>, <<" ", " ">>}
Letters == {"A", "B"}
Titles == {<<"a">>, <<"a", " ", "b">>}
TagLists == {<<>>, <<<<"h">>>>, <<<<"h">>, <<"e">>>>}

PriorityMarker(x) == <<"[", "#", x, "]">>

RECURSIVE TagRun(_)
TagRun(tags) ==
    IF tags = <<>> THEN <<":">> ELSE <<":">> \o Head(tags) \o TagRun(Tail(tags))

\* <stars> KEYWORD<gap>[#X] title :t1:..:tn:
FullHeading(n, keyword, gap, x, title, tags) ==
    Stars(n) \o <<" ">> \o keyword \o gap \o PriorityMarker(x) \o <<" ">>
        \o title \o <<" ">> \o TagRun(tags)

HeadingLines ==
    {FullHeading(n, k, g, x, t, tg) :
        n \in 1..MaxLevel, k \in Keywords, g \in Gaps, x \in Letters,
        t \in Titles, tg \in TagLists \ {<<>>}}
    \cup {Stars(n) \o <<" ">> \o k \o g \o t :
              n \in 1..MaxLevel, k \in Keywords, g \in Gaps, t \in Titles}
    \cup {Stars(n) \o <<" ">> \o t \o <<" ">> \o TagRun(tg) :
              n \in 1..MaxLevel, t \in Titles, tg \in TagLists \ {<<>>}}
    \cup {Stars(n) \o <<" ">> \o t : n \in 1..MaxLevel, t \in Titles}

HeadingInit ==
    /\ heading_line \in HeadingLines
    /\ heading = None
    /\ hpc = "fields"
    /\ MarkupIdle
    /\ ParseIdle

HeadingNext == HeaderFields \/ MarkupScan \/ MarkupReturn \/ HeaderText

HeadingSpec == HeadingInit /\ [][HeadingNext]_vars

(* ===================== properties of parse_markup ====================== *)
\* the scan is at a "[" where the link pattern matches
AtLink ==
    /\ mpc = "scan"
    /\ index < Len(string)
    /\ Char(string, index) = "["
    /\ LinkMatch(SliceFrom(string, index)).found

\* the line contains a link: the pattern matches at some "["
HasLink(s) ==
    \E i \in 0..(Len(s) - 1) :
        Char(s, i) = "[" /\ LinkMatch(SliceFrom(s, i)).found

\* some style delimiter occurs twice in the line
HasPair(s) ==
    \E i \in 1..Len(s) : \E j \in (i + 1)..Len(s) :
        s[i] = s[j] /\ markup_char(s[i]) # "NONE"

\* the source text an entry of the result stands for; the enumerated lines
\* hold no whitespace, so a link's matched text is its brackets and groups
Chars(v) == IF v = None THEN <<>> ELSE v.chars
SourceOf(e) ==
    IF e.type = "Link"
    THEN <<"[", "[">> \o Chars(e.url) \o <<"]", "[">> \o Chars(e.text) \o <<"]", "]">>
    ELSE char_for_style(e.style) \o e.text \o char_for_style(e.style)

RECURSIVE Flatten(_)
Flatten(list) ==
    IF list = <<>> THEN <<>> ELSE SourceOf(Head(list)) \o Flatten(Tail(list))

\* C1: parse_markup terminates on every line.  What an iteration does is
\* fixed by the line and the index alone, so the scan reaches the end of the
\* line exactly when it visits no index twice, that is when the loop body
\* runs at most once per character of the line.
C1_Terminates == scans <= Len(string)

\* C5: markup coverage: the entries of the result, each rendered as its
\* source text and concatenated in order, reproduce the line exactly.
C5_Coverage == mpc = "done" => Flatten(markup) = string

\* C6: at a link with plain text buffered, the step flushes the buffer as a
\* style-none Element, then emits the Link, and resumes right after the
\* match.
C6_LinkFlushesBuffer ==
    [][(AtLink /\ text_node # None)
         => LET m == LinkMatch(SliceFrom(string, index))
            IN /\ markup' = markup \o <<Element("NONE", text_node.chars),
                                         Link(m.g1, m.g2)>>
               /\ text_node' = None
               /\ index' = index + m.end]_vars

\* C10: a line with no link and no delimiter that occurs again later yields
\* exactly one style-none Element holding the whole line (nothing for the
\* empty line), so no styled Element comes from an unclosed delimiter.
C10_UnbalancedIsPlain ==
    (mpc = "done" /\ ~HasLink(string) /\ ~HasPair(string))
        => markup = IF string = <<>> THEN <<>>
                    ELSE <<Element("NONE", string)>>

\* a returned line with an unclosed "*" after some text
C10_Witness ==
    /\ mpc = "done"
    /\ ~HasLink(string) /\ ~HasPair(string)
    /\ \E i \in 2..Len(string) : string[i] = "*"
    /\ markup = <<Element("NONE", string)>>

\* the scan is at a style delimiter that occurs again later in the line
AtPair ==
    /\ mpc = "scan"
    /\ index < Len(string)
    /\ markup_char(Char(string, index)) # "NONE"
    /\ \E j \in (index + 1)..(Len(string) - 1) :
           Char(string, j) = Char(string, index)

\* the position of the next occurrence of the character under the scan
NextSame ==
    CHOOSE j \in (index + 1)..(Len(string) - 1) :
        /\ Char(string, j) = Char(string, index)
        /\ \A k \in (index + 1)..(j - 1) : Char(string, k) # Char(string, index)

\* C11: style pairing: in a line without links, at a delimiter that occurs
\* again later the step flushes the buffer as a style-none Element, emits
\* one Element of the delimiter's style holding exactly the characters
\* strictly between the delimiter and its next occurrence, and resumes
\* right after the closing delimiter.
C11_StylePairing ==
    [][(AtPair /\ ~HasLink(string))
         => /\ markup' =
                  (IF text_node # None
                   THEN Append(markup, Element("NONE", text_node.chars))
                   ELSE markup)
                  \o <<Element(markup_char(Char(string, index)),
                               [i \in 1..(NextSame - index - 1) |->
                                   Char(string, index + i)])>>
            /\ text_node' = None
            /\ index' = NextSame + 1]_vars

\* a returned line in which a bold span follows flushed plain text and
\* holds a pair of "/" that was not made a span of its own
C11_Witness ==
    /\ mpc = "done"
    /\ \E i \in 2..Len(markup) :
           /\ markup[i].style = "BOLD"
           /\ markup[i - 1].style = "NONE"
           /\ Cardinality({k \in 1..Len(markup[i].text) :
                               markup[i].text[k] = "/"}) = 2
           /\ \A k \in 1..Len(markup) : markup[k].style # "ITALICS"

(* ========================= properties of parse ========================= *)
HeaderIds == 1..Len(headers)

\* the headings among the entries of a list of nodes
HeaderIdsIn(list) ==
    {list[i].id : i \in {j \in 1..Len(list) : list[j].type = "Header"}}

\* how many entries of a list of nodes are the heading h
Occurrences(list, h) ==
    Cardinality({i \in 1..Len(list) : list[i] = HeaderRef(h)})

RECURSIVE SumOver(_, _)
SumOver(f, S) ==
    IF S = {} THEN 0
    ELSE LET x == CHOOSE y \in S : TRUE IN f[x] + SumOver(f, S \ {x})

\* the places the heading h occupies in the tree
Positions(h) ==
    Occurrences(document, h)
        + SumOver([g \in HeaderIds |-> Occurrences(headers[g].children, h)],
                  HeaderIds)

\* the headings reachable from the top-level sequence through children
RECURSIVE Closure(_)
Closure(S) ==
    LET next == S \cup UNION {HeaderIdsIn(headers[h].children) : h \in S}
    IN IF next = S THEN S ELSE Closure(next)
Reachable == Closure(HeaderIdsIn(document))

\* C2: no heading is lost: when parse has returned, every heading created
\* from a heading line is reachable from the returned sequence.
C2_NoHeadingLost == pc = "returned" => \A h \in HeaderIds : h \in Reachable

\* C3: no heading is duplicated or shared: when parse has returned, each
\* heading occupies exactly one position, in the returned sequence or in
\* one heading's children.
C3_OnePosition == pc = "returned" => \A h \in HeaderIds : Positions(h) = 1

\* C4: level monotonicity: in every state, a heading among the children of
\* a heading H has a level strictly greater than H's.
C4_ChildrenDeeper ==
    \A h \in HeaderIds : \A c \in HeaderIdsIn(headers[h].children) :
        headers[c].level > headers[h].level

\* parse has returned a tree in which a heading holds a heading two levels
\* deeper and another heading was closed by one of its own level
C4_Witness ==
    /\ pc = "returned"
    /\ \E h \in HeaderIds : \E c \in HeaderIdsIn(headers[h].children) :
           headers[c].level = headers[h].level + 2
    /\ \E h \in HeaderIds : h > 1 /\ headers[h].level = headers[h - 1].level

\* the entries of a list of nodes
Entries(list) == {list[i] : i \in 1..Len(list)}

\* C7: a drawer still open when the input ends is in the children of the
\* innermost open heading or, with no heading open, in the returned
\* sequence.
C7_OpenDrawerFlushed ==
    (pc = "returned" /\ open_drawer # None)
        => IF peek(header_stack) # 0
           THEN open_drawer \in Entries(headers[peek(header_stack)].children)
           ELSE open_drawer \in Entries(document)

\* C8: a SCHEDULED: or DEADLINE: line never makes parse fail.
C8_DateNeverFails == pc # "ValueError"

\* C8: when parse has returned, a heading's scheduled and deadline fields
\* are None or a valid calendar date.
C8_DatesValid ==
    pc = "returned"
        => \A h \in HeaderIds : \A d \in {headers[h].scheduled, headers[h].deadline} :
              d # None => ValidDate(d.year, d.month, d.day)

\* the last k + 2 lines read are ":NAME:", k property lines and ":END:", and
\* a heading line came before them
DrawerRun(k) ==
    LET n == Len(lines)
    IN /\ n - k - 1 >= 2
       /\ lines[n] = EndLine
       /\ lines[n - k - 1].kind = "drawer"
       /\ lines[n - k - 1] # EndLine
       /\ \A i \in (n - k)..(n - 1) : lines[i].kind = "property"
       /\ \E j \in 1..(n - k - 2) : lines[j].kind = "header"

\* C12: drawer round trip: after ":NAME:", k property lines and ":END:"
\* under an open heading, that heading's children end with the one Drawer
\* NAME made by these lines, its entries are the k (key, trimmed value)
\* pairs in order, and no drawer is open.
C12_DrawerRoundTrip ==
    \A k \in 0..MaxLines :
        DrawerRun(k)
            => LET n == Len(lines)
                   h == peek(header_stack)
                   made == [type |-> "Drawer", name |-> lines[n - k - 1].name,
                            id |-> n - k - 1,
                            children |-> [i \in 1..k |->
                                Tuple(<<lines[n - k - 1 + i].key,
                                        Strip(lines[n - k - 1 + i].value)>>)]]
               IN /\ h # 0
                  /\ headers[h].children # <<>>
                  /\ headers[h].children[Len(headers[h].children)] = made
                  /\ Cardinality({i \in 1..Len(headers[h].children) :
                         /\ headers[h].children[i].type = "Drawer"
                         /\ headers[h].children[i].id = n - k - 1}) = 1
                  /\ open_drawer = None

\* a drawer of two entries, one of them written with trailing whitespace,
\* has been closed under a heading
C12_Witness ==
    /\ DrawerRun(2)
    /\ pc = "loop"
    /\ \E i \in 1..Len(lines) :
           lines[i].kind = "property" /\ Strip(lines[i].value) # lines[i].value
               /\ LStrip(lines[i].value) # Strip(lines[i].value)

\* the step reads one line, and the line is line
Reads(line) == pc = "loop" /\ lines' = Append(lines, line)

\* the step reads a heading line that supersedes the heading at the top of
\* the stack
Unwinds(level) ==
    /\ Reads(HeaderLine(level))
    /\ header_stack # <<>>
    /\ level <= headers[peek(header_stack)].level

\* the entries of the stack with a level less than level, bottom to top
Shallower(level) == SelectSeq(header_stack, LAMBDA h : headers[h].level < level)

\* C13: unwinding pops only closed headings: when a heading of level L
\* arrives and the level of the stack top is >= L, the stack afterwards is
\* the entries of level < L, in their order, with the new heading on top.
C13_PopsOnlyClosed ==
    [][\A level \in 1..MaxLevel :
          Unwinds(level)
              => header_stack' = Append(Shallower(level), Len(headers) + 1)]_vars

\* C14: a heading line whose level is <= the level of the stack top
\* appends one heading to the document, the last one popped, pushes the
\* new heading onto what is left of the stack, and changes no heading's
\* children: the new heading is in the children of no heading.
C14_UnwindingFrame ==
    [][\A level \in 1..MaxLevel :
          Unwinds(level)
              => LET new == Len(headers) + 1
                     left == Len(header_stack') - 1
                 IN /\ left < Len(header_stack)
                    /\ header_stack' = Append(SubSeq(header_stack, 1, left), new)
                    /\ document' = Append(document, HeaderRef(header_stack[left + 1]))
                    /\ Len(headers') = new
                    /\ headers'[new].level = level
                    /\ \A h \in HeaderIds : headers'[h] = headers[h]
                    /\ \A h \in 1..new :
                           new \notin HeaderIdsIn(headers'[h].children)]_vars

\* the last line read is a heading line that closed two headings and left
\* an ancestor on the stack beneath the new heading
C14_Witness ==
    /\ pc = "loop"
    /\ lines # <<>>
    /\ lines[Len(lines)].kind = "header"
    /\ Len(headers) >= 4
    /\ headers[Len(headers)].level <= headers[Len(headers) - 1].level
    /\ header_stack = <<1, Len(headers)>>
    /\ document = <<HeaderRef(2)>>

\* C15: at the end of the input every heading on the stack is appended to
\* the returned sequence, after the nodes already there and from the bottom
\* of the stack to its top, a heading that is a child of another included.
C15_StackAppendedAtEnd ==
    [][(pc = "loop" /\ pc' = "returned")
          => /\ Len(document') = Len(document) + Len(header_stack)
             /\ SubSeq(document', 1, Len(document)) = document
             /\ \A i \in 1..Len(header_stack) :
                    document'[Len(document) + i] = HeaderRef(header_stack[i])]_vars

\* parse has returned with a node emitted before the headings and a stack
\* of three headings, each above the bottom a child of the one beneath it
C15_Witness ==
    /\ pc = "returned"
    /\ Len(header_stack) = 3
    /\ Len(document) = 4
    /\ document[1].type # "Header"
    /\ \A i \in 1..2 :
           header_stack[i + 1] \in HeaderIdsIn(headers[header_stack[i]].children)
    /\ \A i \in 1..3 : document[1 + i] = HeaderRef(header_stack[i])

\* the node made of a directive line or of a line left to the fallback
NodeOf(line) ==
    IF line.kind = "directive" THEN Directive(line.name, None) ELSE MarkupOf(line)

\* the line is a directive line or matches no branch before the fallback
ToContainer(line) ==
    \/ line.kind \in {"directive", "text"}
    \/ line.kind = "property" /\ open_drawer = None

\* C16: container selection: a directive line or a fallback line appends
\* its node to one container, the open drawer if there is one, else the
\* heading at the top of the stack, else the document; the two others, the
\* stack and the identity of the open drawer do not change.
C16_ContainerSelection ==
    [][\A line \in TreeLines :
          (Reads(line) /\ ToContainer(line))
              => /\ header_stack' = header_stack
                 /\ IF open_drawer # None
                    THEN /\ open_drawer' =
                              [open_drawer EXCEPT !.children = Append(@, NodeOf(line))]
                         /\ headers' = headers
                         /\ document' = document
                    ELSE IF header_stack # <<>>
                    THEN /\ headers' =
                              [headers EXCEPT ![header_stack[Len(header_stack)]].children =
                                  Append(@, NodeOf(line))]
                         /\ open_drawer' = open_drawer
                         /\ document' = document
                    ELSE /\ document' = Append(document, NodeOf(line))
                         /\ open_drawer' = open_drawer
                         /\ headers' = headers]_vars

\* one document in which the three containers have each received a line
C16_Witness ==
    /\ document = <<NodeOf(TextLine)>>
    /\ Len(headers) = 1
    /\ headers[1].children = <<NodeOf(DirectiveLine("TITLE"))>>
    /\ open_drawer # None
    /\ open_drawer.children = <<NodeOf(TextLine)>>

\* C17: every entry of the returned sequence and of every heading's
\* children is a node, never None, an ":END:" line read with no drawer
\* open included.
C17_NoNoneEntry ==
    /\ None \notin Entries(document)
    /\ \A h \in HeaderIds : None \notin Entries(headers[h].children)

\* C18: after every line the levels on the stack increase strictly from
\* the bottom to the top, and once a heading line has been read the stack
\* is not empty.
C18_StackIncreasing ==
    /\ \A i \in 1..(Len(header_stack) - 1) :
           headers[header_stack[i]].level < headers[header_stack[i + 1]].level
    /\ (\E i \in 1..Len(lines) : lines[i].kind = "header") => header_stack # <<>>

\* a stack of three headings has been unwound to an ancestor and a new
\* heading, and a line that is not a heading line has followed
C18_Witness ==
    /\ Len(headers) = 4
    /\ header_stack = <<1, 4>>
    /\ Len(lines) = 5
    /\ lines[5].kind # "header"

\* the positions of list that hold a heading
HeaderPositions(list) == {i \in 1..Len(list) : list[i].type = "Header"}

\* C19: a heading receives a child heading only from the heading line that
\* follows its own among the heading lines, so in every state a heading has
\* at most one heading among its children, the next heading created.
C19_OneChildHeading ==
    \A h \in HeaderIds :
        /\ Cardinality(HeaderPositions(headers[h].children)) <= 1
        /\ HeaderIdsIn(headers[h].children) \subseteq {h + 1}

\* a heading holds a sub-heading, and a second sub-heading of the same
\* level has been read and is not among its children
C19_Witness ==
    /\ Len(headers) >= 3
    /\ headers[1].level < headers[2].level
    /\ headers[3].level = headers[2].level
    /\ HeaderIdsIn(headers[1].children) = {2}

\* C20: the headings of the returned sequence are in the order of their
\* heading lines: of two headings in it, the one whose line comes first
\* comes first.
C20_DocumentOrder ==
    pc = "returned"
        => \A i, j \in HeaderPositions(document) :
              document[i].id < document[j].id => i < j

(* ================= properties of the heading branch ==================== *)
\* C9: for a heading line <stars> KEYWORD [#X] title :t1:..:tn: with a
\* recognized KEYWORD and single spaces between the fields, the heading has
\* the level of the stars, the keyword, the priority character X, the tags
\* and a title made of the title text only.
C9_HeadingMetadata ==
    hpc = "done"
        => \A n \in 1..MaxLevel, k \in recognized_todo_keywords, x \in Letters,
              t \in Titles, tg \in TagLists \ {<<>>} :
              heading_line = FullHeading(n, k, <<" ">>, x, t, tg)
                  => /\ heading.level = n
                     /\ heading.todo = Str(k)
                     /\ heading.priority = Str(<<x>>)
                     /\ heading.tags = tg
                     /\ heading.text = Markup(<<Element("NONE", t)>>)

====
